---- MODULE Spec2Model ----
(***************************************************************************)
(* A model of the brainfuck interpreter of src/src/brainfuck.rs and its    *)
(* caller src/src/main.rs: Program::parse (lexing, bracket validation,     *)
(* run-length compression, jump resolution) and Program::run (the          *)
(* fetch-decode-execute loop over a byte tape).                            *)
(*                                                                         *)
(* Positions in the instruction sequence and in the tape are 0-based, as   *)
(* in the source; TLA+ sequences are 1-based, so element i of a Vec v is   *)
(* v[i + 1].                                                               *)
(***************************************************************************)
EXTENDS Integers, Sequences, FiniteSets

(***************************************************************************)
(* Bounds of the model.                                                    *)
(***************************************************************************)
\* longest source text handed to Program::parse in CompileSpec
MaxSrc == 4
\* longest source text compiled and run in Spec and RleSpec
MaxLen == 3
\* longest tape handed to Program::run in Spec and RleSpec
MaxTape == 2
\* most iterations of run's while loop that are followed
MaxSteps == 17

(***************************************************************************)
(* Characters, opcodes, instructions.                                      *)
(***************************************************************************)
\* the eight characters OpCode::parse recognizes
OpChars == {">", "<", "+", "-", ".", ",", "[", "]"}
\* the recognized characters that perform no I/O
PureChars == {">", "<", "+", "-", "[", "]"}
\* source characters: the recognized ones and one that is not
Chars == OpChars \cup {"x"}

\* usize::MAX, the placeholder target of an unbound loop instruction. It is
\* held as the value its cast `as isize` has, -1.
usize_MAX == -1

\* OpCode::parse with a ninth character recognized: "x" is read as an output
OpCodeParseExtra(c) ==
    CASE c = ">" -> "IncrementPointer"
      [] c = "<" -> "DecrementPointer"
      [] c = "+" -> "IncrementValue"
      [] c = "-" -> "DecrementValue"
      [] c = "." -> "PutChar"
      [] c = "x" -> "PutChar"
      [] c = "," -> "GetChar"
      [] c = "[" -> "LoopHead"
      [] c = "]" -> "LoopEnd"
      [] OTHER -> "None"

\* OpCode::parse; "None" is Option::None
OpCodeParse(c) ==
    CASE c = ">" -> "IncrementPointer"
      [] c = "<" -> "DecrementPointer"
      [] c = "+" -> "IncrementValue"
      [] c = "-" -> "DecrementValue"
      [] c = "." -> "PutChar"
      [] c = "," -> "GetChar"
      [] c = "[" -> "LoopHead"
      [] c = "]" -> "LoopEnd"
      [] OTHER -> "None"

\* OpCode::is_run_length_optimizable
is_run_length_optimizable(code) ==
    code \in {"DecrementPointer", "IncrementPointer", "DecrementValue", "IncrementValue"}

\* the value that stands for a panic raised while an instruction is built
PanicInstruction == [op |-> "panic"]

\* OpCode::create_optimized_instruction: both assertions, then the match
create_optimized_instruction(code, n) ==
    IF ~(n > 1) THEN PanicInstruction
    ELSE IF ~is_run_length_optimizable(code) THEN PanicInstruction
    ELSE CASE code = "DecrementPointer" -> [op |-> "DecrementPointer", arg |-> n]
           [] code = "IncrementPointer" -> [op |-> "IncrementPointer", arg |-> n]
           [] code = "DecrementValue" -> [op |-> "DecrementValue", arg |-> n]
           [] code = "IncrementValue" -> [op |-> "IncrementValue", arg |-> n]
           [] OTHER -> PanicInstruction

\* OpCode::as_instruction
as_instruction(code) ==
    CASE code = "DecrementPointer" -> [op |-> "DecrementPointer", arg |-> 1]
      [] code = "IncrementPointer" -> [op |-> "IncrementPointer", arg |-> 1]
      [] code = "DecrementValue" -> [op |-> "DecrementValue", arg |-> 1]
      [] code = "IncrementValue" -> [op |-> "IncrementValue", arg |-> 1]
      [] code = "PutChar" -> [op |-> "PutChar"]
      [] code = "GetChar" -> [op |-> "GetChar"]
      [] code = "LoopHead" -> [op |-> "LoopHead", arg |-> usize_MAX]
      [] code = "LoopEnd" -> [op |-> "LoopEnd", arg |-> usize_MAX]

(***************************************************************************)
(* Program::parse.                                                         *)
(***************************************************************************)
\* code.chars().filter_map(OpCode::parse).collect()
FilterMapParse(code) ==
    LET kept == SelectSeq(code, LAMBDA c : OpCodeParse(c) # "None")
    IN  [i \in 1..Len(kept) |-> OpCodeParse(kept[i])]

\* the for loop of has_balanced_brackets from element i (0-based) on, with the
\* counter unclosed_loop_heads
RECURSIVE BalancedFrom(_, _, _)
BalancedFrom(op_codes, i, unclosed_loop_heads) ==
    IF i >= Len(op_codes) THEN unclosed_loop_heads = 0
    ELSE IF op_codes[i + 1] = "LoopHead"
         THEN BalancedFrom(op_codes, i + 1, unclosed_loop_heads + 1)
    ELSE IF op_codes[i + 1] = "LoopEnd"
         THEN IF unclosed_loop_heads - 1 < 0 THEN FALSE
              ELSE BalancedFrom(op_codes, i + 1, unclosed_loop_heads - 1)
    ELSE BalancedFrom(op_codes, i + 1, unclosed_loop_heads)

\* the loop of has_balanced_brackets without the final test of the counter: a
\* dangling loop head is accepted
RECURSIVE BalancedFromNoFinal(_, _, _)
BalancedFromNoFinal(op_codes, i, unclosed_loop_heads) ==
    IF i >= Len(op_codes) THEN TRUE
    ELSE IF op_codes[i + 1] = "LoopHead"
         THEN BalancedFromNoFinal(op_codes, i + 1, unclosed_loop_heads + 1)
    ELSE IF op_codes[i + 1] = "LoopEnd"
         THEN IF unclosed_loop_heads - 1 < 0 THEN FALSE
              ELSE BalancedFromNoFinal(op_codes, i + 1, unclosed_loop_heads - 1)
    ELSE BalancedFromNoFinal(op_codes, i + 1, unclosed_loop_heads)

has_balanced_brackets_no_final(op_codes) == BalancedFromNoFinal(op_codes, 0, 0)

\* Program::has_balanced_brackets
has_balanced_brackets(op_codes) == BalancedFrom(op_codes, 0, 0)

\* Program::check
check(op_codes) == has_balanced_brackets(op_codes)

\* the length of the run of elements equal to op_codes[1] that starts op_codes
RECURSIVE RunLength(_, _)
RunLength(op_codes, n) ==
    IF n < Len(op_codes) /\ op_codes[n + 1] = op_codes[1]
    THEN RunLength(op_codes, n + 1)
    ELSE n

\* itertools group_by(|c| *c): the consecutive groups of equal opcodes, each as
\* its key and the count of its elements
RECURSIVE GroupBy(_)
GroupBy(op_codes) ==
    IF op_codes = <<>> THEN <<>>
    ELSE LET n == RunLength(op_codes, 1)
         IN  <<[code |-> op_codes[1], count |-> n]>>
                 \o GroupBy(SubSeq(op_codes, n + 1, Len(op_codes)))

\* the closure of flat_map with the optimizable case lost: every group is
\* lowered to unit instructions
LowerGroupUnit(code, count) == [i \in 1..count |-> as_instruction(code)]

\* the closure of flat_map with the arm for a count of 1 lost: a single
\* optimizable opcode goes to create_optimized_instruction too
LowerGroupAlwaysOptimized(code, count) ==
    IF is_run_length_optimizable(code)
    THEN <<create_optimized_instruction(code, count)>>
    ELSE [i \in 1..count |-> as_instruction(code)]

\* the closure of flat_map in bind: the instructions one group lowers to
LowerGroup(code, count) ==
    IF count = 1 THEN <<as_instruction(code)>>
    ELSE IF is_run_length_optimizable(code)
         THEN <<create_optimized_instruction(code, count)>>
         ELSE [i \in 1..count |-> as_instruction(code)]

RECURSIVE FlatMap(_)
FlatMap(groups) ==
    IF groups = <<>> THEN <<>>
    ELSE LowerGroup(groups[1].code, groups[1].count) \o FlatMap(Tail(groups))

\* optimized_instructions of bind
Optimize(op_codes) == FlatMap(GroupBy(op_codes))

\* the for loop of bind from current_index on. `unwrapped_none` records a pop
\* of the empty stack (Option::unwrap panics).
RECURSIVE BindFrom(_, _, _, _)
BindFrom(optimized_instructions, bound_instructions, loop_head_address_stack, current_index) ==
    IF current_index >= Len(optimized_instructions)
    THEN [instructions |-> bound_instructions,
          stack |-> loop_head_address_stack,
          unwrapped_none |-> FALSE]
    ELSE LET instruction == optimized_instructions[current_index + 1] IN
         IF instruction.op = "LoopHead"
         THEN BindFrom(optimized_instructions, bound_instructions,
                       Append(loop_head_address_stack, current_index), current_index + 1)
         ELSE IF instruction.op = "LoopEnd"
         THEN IF loop_head_address_stack = <<>>
              THEN [instructions |-> bound_instructions,
                    stack |-> loop_head_address_stack,
                    unwrapped_none |-> TRUE]
              ELSE LET depth == Len(loop_head_address_stack)
                       corresponding_start_index == loop_head_address_stack[depth]
                   IN  BindFrom(optimized_instructions,
                                [bound_instructions EXCEPT
                                    ![current_index + 1] =
                                        [op |-> "LoopEnd", arg |-> corresponding_start_index],
                                    ![corresponding_start_index + 1] =
                                        [op |-> "LoopHead", arg |-> current_index]],
                                SubSeq(loop_head_address_stack, 1, depth - 1),
                                current_index + 1)
         ELSE BindFrom(optimized_instructions, bound_instructions,
                       loop_head_address_stack, current_index + 1)

\* the jump resolution pass with the assignment to the loop head (line 175)
\* lost: every loop head keeps its placeholder target
BindJumpsHeadUnbound(optimized_instructions) ==
    LET b == BindFrom(optimized_instructions, optimized_instructions, <<>>, 0)
    IN  [b EXCEPT !.instructions =
            [i \in 1..Len(optimized_instructions) |->
                IF optimized_instructions[i].op = "LoopHead"
                THEN optimized_instructions[i]
                ELSE b.instructions[i]]]

\* the jump resolution pass with the assignment to the loop end (line 172)
\* lost: every loop end keeps its placeholder target
BindJumpsEndUnbound(optimized_instructions) ==
    LET b == BindFrom(optimized_instructions, optimized_instructions, <<>>, 0)
    IN  [b EXCEPT !.instructions =
            [i \in 1..Len(optimized_instructions) |->
                IF optimized_instructions[i].op = "LoopEnd"
                THEN optimized_instructions[i]
                ELSE b.instructions[i]]]

\* the jump resolution pass of bind: bound_instructions starts as a copy of
\* optimized_instructions
BindJumps(optimized_instructions) ==
    BindFrom(optimized_instructions, optimized_instructions, <<>>, 0)

\* Program::bind. `panicked` is TRUE when an assertion of
\* create_optimized_instruction, the unwrap of the pop or the final assertion
\* on the stack fails.
bind(op_codes) ==
    LET optimized_instructions == Optimize(op_codes)
        bound == BindJumps(optimized_instructions)
    IN  [instructions |-> bound.instructions,
         stack |-> bound.stack,
         panicked |-> \/ \E i \in 1..Len(optimized_instructions) :
                            optimized_instructions[i] = PanicInstruction
                      \/ bound.unwrapped_none
                      \/ bound.stack # <<>>]

\* Option::None of Program::parse, and the outcome of a panic inside it
None == [some |-> FALSE, panicked |-> FALSE, instructions |-> <<>>]
ParsePanicked == [some |-> FALSE, panicked |-> TRUE, instructions |-> <<>>]

\* Program::parse
ProgramParse(code) ==
    LET op_codes == FilterMapParse(code) IN
    IF ~check(op_codes) THEN None
    ELSE LET instructions == bind(op_codes) IN
         IF instructions.panicked THEN ParsePanicked
         ELSE [some |-> TRUE, panicked |-> FALSE, instructions |-> instructions.instructions]


(***************************************************************************)
(* Program::run: the effect of one instruction on the machine state        *)
(*   m = [instruction_pointer, data_pointer, memory, stdout, panic].       *)
(* m.panic is "none" until a panic ends the run; a panic leaves the        *)
(* locals as they are at the panicking statement.                          *)
(***************************************************************************)
\* panic_if_overflow with > for >=: the index one past the end is accepted
panic_if_overflow_strict(data_pointer, memory) == data_pointer > Len(memory)

\* Program::panic_if_overflow: TRUE when it panics
panic_if_overflow(data_pointer, memory) == data_pointer >= Len(memory)

\* Program::panic_if_underflow: TRUE when it panics
panic_if_underflow(data_pointer) == data_pointer < 0

\* the bounds check of the index expression memory[data_pointer]
IndexInBounds(m) == m.data_pointer < Len(m.memory)

\* memory[data_pointer]
Cell(m) == m.memory[m.data_pointer + 1]

\* the cast `as u8` of a usize: the low 8 bits
as_u8(x) == x % 256

\* `memory[data_pointer] as char` written by print!("{}", ..): the UTF-8
\* encoding of the code point U+0000..U+00FF
Utf8(c) == IF c < 128 THEN <<c>> ELSE <<192 + (c \div 64), 128 + (c % 64)>>

\* Instruction::IncrementPointer with the call of panic_if_overflow lost
StepIncrementPointerUnchecked(n, m) ==
    [m EXCEPT !.data_pointer = m.data_pointer + n,
              !.instruction_pointer = m.instruction_pointer + 1]

\* Instruction::IncrementPointer(n), lines 206-211. data_pointer += n cannot
\* overflow usize: n is at most the length of the source text.
StepIncrementPointer(n, m) ==
    LET data_pointer_1 == m.data_pointer + n IN
    IF panic_if_overflow(data_pointer_1, m.memory)
    THEN [m EXCEPT !.data_pointer = data_pointer_1, !.panic = "data pointer overflow"]
    ELSE [m EXCEPT !.data_pointer = data_pointer_1,
                   !.instruction_pointer = m.instruction_pointer + 1]

\* Instruction::DecrementPointer(n), lines 212-219
StepDecrementPointer(n, m) ==
    LET next_value == m.data_pointer - n IN
    IF panic_if_underflow(next_value)
    THEN [m EXCEPT !.panic = "data pointer underflow"]
    ELSE [m EXCEPT !.data_pointer = next_value,
                   !.instruction_pointer = m.instruction_pointer + 1]

\* Instruction::IncrementValue(n), lines 220-224
StepIncrementValue(n, m) ==
    IF ~IndexInBounds(m) THEN [m EXCEPT !.panic = "index out of bounds"]
    ELSE [m EXCEPT !.memory[m.data_pointer + 1] = as_u8(Cell(m) + n),
                   !.instruction_pointer = m.instruction_pointer + 1]

\* Instruction::DecrementValue(n), lines 225-229. The subtraction is made in
\* usize: when the cell is less than n it panics in a build with overflow
\* checks (the debug profile) and wraps modulo 2^64 in a build without (the
\* release profile); 256 divides 2^64, so the cast leaves (cell - n) mod 256.
StepDecrementValue(n, m, checks) ==
    IF ~IndexInBounds(m) THEN [m EXCEPT !.panic = "index out of bounds"]
    ELSE IF Cell(m) < n /\ checks
         THEN [m EXCEPT !.panic = "attempt to subtract with overflow"]
    ELSE [m EXCEPT !.memory[m.data_pointer + 1] = as_u8(Cell(m) - n),
                   !.instruction_pointer = m.instruction_pointer + 1]

\* Instruction::LoopHead with the test inverted
StepLoopHeadInverted(loop_end_address, m) ==
    IF ~IndexInBounds(m) THEN [m EXCEPT !.panic = "index out of bounds"]
    ELSE IF Cell(m) # 0
         THEN [m EXCEPT !.instruction_pointer = loop_end_address + 1]
         ELSE [m EXCEPT !.instruction_pointer = m.instruction_pointer + 1]

\* Instruction::LoopHead jumping to the loop end itself instead of past it
StepLoopHeadToEnd(loop_end_address, m) ==
    IF ~IndexInBounds(m) THEN [m EXCEPT !.panic = "index out of bounds"]
    ELSE IF Cell(m) = 0
         THEN [m EXCEPT !.instruction_pointer = loop_end_address]
         ELSE [m EXCEPT !.instruction_pointer = m.instruction_pointer + 1]

\* Instruction::LoopHead(loop_end_address), lines 230-236
StepLoopHead(loop_end_address, m) ==
    IF ~IndexInBounds(m) THEN [m EXCEPT !.panic = "index out of bounds"]
    ELSE IF Cell(m) = 0
         THEN [m EXCEPT !.instruction_pointer = loop_end_address + 1]
         ELSE [m EXCEPT !.instruction_pointer = m.instruction_pointer + 1]

\* Instruction::LoopEnd falling through whatever the cell holds
StepLoopEndFallThrough(loop_start_address, m) ==
    IF ~IndexInBounds(m) THEN [m EXCEPT !.panic = "index out of bounds"]
    ELSE [m EXCEPT !.instruction_pointer = m.instruction_pointer + 1]

\* Instruction::LoopEnd jumping back whatever the cell holds, so that the
\* loop head makes the test
StepLoopEndAlwaysBack(loop_start_address, m) ==
    IF ~IndexInBounds(m) THEN [m EXCEPT !.panic = "index out of bounds"]
    ELSE [m EXCEPT !.instruction_pointer = loop_start_address]

\* Instruction::LoopEnd with the test inverted
StepLoopEndInverted(loop_start_address, m) ==
    IF ~IndexInBounds(m) THEN [m EXCEPT !.panic = "index out of bounds"]
    ELSE IF Cell(m) # 0
         THEN [m EXCEPT !.instruction_pointer = m.instruction_pointer + 1]
         ELSE [m EXCEPT !.instruction_pointer = loop_start_address]

\* Instruction::LoopEnd(loop_start_address), lines 237-244
StepLoopEnd(loop_start_address, m) ==
    IF ~IndexInBounds(m) THEN [m EXCEPT !.panic = "index out of bounds"]
    ELSE IF Cell(m) = 0
         THEN [m EXCEPT !.instruction_pointer = m.instruction_pointer + 1]
         ELSE [m EXCEPT !.instruction_pointer = loop_start_address]

\* Instruction::PutChar, lines 245-249. Standard output is a sink that takes
\* every write.
StepPutChar(m) ==
    IF ~IndexInBounds(m) THEN [m EXCEPT !.panic = "index out of bounds"]
    ELSE [m EXCEPT !.stdout = m.stdout \o Utf8(Cell(m)),
                   !.instruction_pointer = m.instruction_pointer + 1]

\* what stdin_bytes.next() returns: None, Some(Err(_)) or Some(Ok(byte))
InputNone == [kind |-> "None", byte |-> 0]
InputErr == [kind |-> "Err", byte |-> 0]
InputOk(b) == [kind |-> "Ok", byte |-> b]
\* no read was made
NotRead == [kind |-> "NotRead", byte |-> 0]

\* Instruction::GetChar with the `continue` lost: the instruction pointer
\* advances on exhausted input
StepGetCharSkip(input, m) ==
    IF input.kind = "None"
    THEN [m EXCEPT !.instruction_pointer = m.instruction_pointer + 1]
    ELSE IF input.kind = "Err" THEN [m EXCEPT !.panic = "unwrap on Err"]
    ELSE IF ~IndexInBounds(m) THEN [m EXCEPT !.panic = "index out of bounds"]
    ELSE [m EXCEPT !.memory[m.data_pointer + 1] = input.byte,
                   !.instruction_pointer = m.instruction_pointer + 1]

\* Instruction::GetChar storing 0 on exhausted input and going on
StepGetCharZeroOnEof(input, m) ==
    IF input.kind = "Err" THEN [m EXCEPT !.panic = "unwrap on Err"]
    ELSE IF ~IndexInBounds(m) THEN [m EXCEPT !.panic = "index out of bounds"]
    ELSE [m EXCEPT !.memory[m.data_pointer + 1] =
                       IF input.kind = "None" THEN 0 ELSE input.byte,
                   !.instruction_pointer = m.instruction_pointer + 1]

\* Instruction::GetChar, lines 250-259. The right-hand side
\* input.unwrap().unwrap() is evaluated before memory is indexed.
StepGetChar(input, m) ==
    IF input.kind = "None" THEN m
    ELSE IF input.kind = "Err" THEN [m EXCEPT !.panic = "unwrap on Err"]
    ELSE IF ~IndexInBounds(m) THEN [m EXCEPT !.panic = "index out of bounds"]
    ELSE [m EXCEPT !.memory[m.data_pointer + 1] = input.byte,
                   !.instruction_pointer = m.instruction_pointer + 1]

\* the condition of the while loop of run
LoopCondition(instruction_pointer, instructions) ==
    0 <= instruction_pointer /\ instruction_pointer < Len(instructions)

(***************************************************************************)
(* The state.                                                              *)
(***************************************************************************)
VARIABLES
    code,                 \* the source text handed to Program::parse
    overflow_checks,      \* the build: TRUE with overflow checks (debug profile)
    memory,               \* the tape handed to Program::run
    program,              \* what Program::parse returned
    pc,                   \* "main", "parsed", "rejected", "running", "exited", "panicked"
    panic,                \* the panic that ended the process, or "none"
    instruction_pointer,  \* local of run
    data_pointer,         \* local of run
    stdin_eof,            \* standard input has reported its end
    stdout,               \* the bytes written to standard output
    trace,                \* history: the instruction pointer of every iteration of run
    prev,                 \* history: the state before the last iteration of run
    naive                 \* the reference machine of RleSpec

vars == <<code, overflow_checks, memory, program, pc, panic, instruction_pointer,
          data_pointer, stdin_eof, stdout, trace, prev, naive>>

\* the values a cell of the initial tape takes
InitCells == {0, 1, 255}
\* the bytes standard input delivers
InputBytes == {0, 65}

\* every text over the characters cs of length at most n
SourceTexts(cs, n) == UNION {[1..k -> cs] : k \in 0..n}

\* vec![0u8; memory_capacity] of main.rs for every capacity up to n, and the
\* same tapes with another value in the first cell (run takes any &mut [u8])
Tapes(n) ==
    {[i \in 1..k |-> IF i = 1 THEN v ELSE 0] : k \in 0..n, v \in InitCells}

\* the machine state of run
Machine ==
    [instruction_pointer |-> instruction_pointer, data_pointer |-> data_pointer,
     memory |-> memory, stdout |-> stdout, panic |-> panic]

NoNaive == [used |-> FALSE]

\* the variables before Program::parse is called on source text c with tape t
Start(c, t) ==
    /\ code = c
    /\ memory = t
    /\ overflow_checks \in BOOLEAN
    /\ program = None
    /\ pc = "main"
    /\ panic = "none"
    /\ instruction_pointer = 0
    /\ data_pointer = 0
    /\ stdin_eof = FALSE
    /\ stdout = <<>>
    /\ trace = <<>>
    /\ prev = [instruction_pointer |-> 0, data_pointer |-> 0, memory |-> t,
               stdout |-> <<>>, input |-> NotRead]

Init ==
    /\ \E c \in SourceTexts(OpChars, MaxLen), t \in Tapes(MaxTape) : Start(c, t)
    /\ naive = NoNaive

(***************************************************************************)
(* The actions.                                                            *)
(***************************************************************************)
\* main.rs run, line 25: Program::parse(program)
Parse ==
    /\ pc = "main"
    /\ LET parsed == ProgramParse(code) IN
          /\ program' = parsed
          /\ pc' = IF parsed.some THEN "parsed"
                   ELSE IF parsed.panicked THEN "panicked" ELSE "rejected"
          /\ panic' = IF parsed.panicked THEN "bind" ELSE "none"
    /\ UNCHANGED <<code, overflow_checks, memory, instruction_pointer, data_pointer,
                   stdin_eof, stdout, trace, prev, naive>>

\* main.rs run, line 28, and lines 195-199 of Program::run
Run ==
    /\ pc = "parsed"
    /\ pc' = "running"
    /\ instruction_pointer' = 0
    /\ data_pointer' = 0
    /\ UNCHANGED <<code, overflow_checks, memory, program, panic, stdin_eof, stdout,
                   trace, prev, naive>>

\* the while loop of run is about to fetch an instruction
Fetching ==
    /\ pc = "running"
    /\ LoopCondition(instruction_pointer, program.instructions)
    /\ Len(trace) < MaxSteps

\* self.instructions[instruction_pointer as usize]
current_instruction == program.instructions[instruction_pointer + 1]

\* one iteration of the while loop that read `input` and left the machine as m
Iterate(m, input) ==
    /\ instruction_pointer' = m.instruction_pointer
    /\ data_pointer' = m.data_pointer
    /\ memory' = m.memory
    /\ stdout' = m.stdout
    /\ panic' = m.panic
    /\ pc' = IF m.panic = "none" THEN "running" ELSE "panicked"
    /\ stdin_eof' = (stdin_eof \/ input.kind = "None")
    /\ trace' = Append(trace, instruction_pointer)
    /\ prev' = [instruction_pointer |-> instruction_pointer,
                data_pointer |-> data_pointer, memory |-> memory,
                stdout |-> stdout, input |-> input]
    /\ UNCHANGED <<code, overflow_checks, program, naive>>

ExecIncrementPointer ==
    /\ Fetching
    /\ current_instruction.op = "IncrementPointer"
    /\ Iterate(StepIncrementPointer(current_instruction.arg, Machine), NotRead)

ExecDecrementPointer ==
    /\ Fetching
    /\ current_instruction.op = "DecrementPointer"
    /\ Iterate(StepDecrementPointer(current_instruction.arg, Machine), NotRead)

ExecIncrementValue ==
    /\ Fetching
    /\ current_instruction.op = "IncrementValue"
    /\ Iterate(StepIncrementValue(current_instruction.arg, Machine), NotRead)

ExecDecrementValue ==
    /\ Fetching
    /\ current_instruction.op = "DecrementValue"
    /\ Iterate(StepDecrementValue(current_instruction.arg, Machine, overflow_checks),
               NotRead)

ExecLoopHead ==
    /\ Fetching
    /\ current_instruction.op = "LoopHead"
    /\ Iterate(StepLoopHead(current_instruction.arg, Machine), NotRead)

ExecLoopEnd ==
    /\ Fetching
    /\ current_instruction.op = "LoopEnd"
    /\ Iterate(StepLoopEnd(current_instruction.arg, Machine), NotRead)

ExecPutChar ==
    /\ Fetching
    /\ current_instruction.op = "PutChar"
    /\ Iterate(StepPutChar(Machine), NotRead)

\* what standard input may return to the next read
Inputs == IF stdin_eof THEN {InputNone}
          ELSE {InputNone, InputErr} \cup {InputOk(b) : b \in InputBytes}

ExecGetChar ==
    /\ Fetching
    /\ current_instruction.op = "GetChar"
    /\ \E input \in Inputs : Iterate(StepGetChar(input, Machine), input)

\* the while condition of run fails and run returns
Return ==
    /\ pc = "running"
    /\ ~LoopCondition(instruction_pointer, program.instructions)
    /\ pc' = "exited"
    /\ UNCHANGED <<code, overflow_checks, memory, program, panic, instruction_pointer,
                   data_pointer, stdin_eof, stdout, trace, prev, naive>>

Next ==
    \/ Parse
    \/ Run
    \/ ExecIncrementPointer
    \/ ExecDecrementPointer
    \/ ExecIncrementValue
    \/ ExecDecrementValue
    \/ ExecLoopHead
    \/ ExecLoopEnd
    \/ ExecPutChar
    \/ ExecGetChar
    \/ Return

Spec == Init /\ [][Next]_vars

(***************************************************************************)
(* CompileSpec: Program::parse applied to every source text of at most     *)
(* MaxSrc characters.                                                      *)
(***************************************************************************)
CompileInit ==
    /\ \E c \in SourceTexts(Chars, MaxSrc) : Start(c, <<>>)
    /\ overflow_checks = FALSE
    /\ naive = NoNaive

CompileNext == Parse

CompileSpec == CompileInit /\ [][CompileNext]_vars


(***************************************************************************)
(* Properties of Program::parse, checked under CompileSpec.                *)
(***************************************************************************)
\* the number of occurrences of the character c in the text s
Count(s, c) == Cardinality({i \in 1..Len(s) : s[i] = c})

\* as many "[" as "]", and no prefix with more "]" than "["
WellBracketed(s) ==
    /\ Count(s, "[") = Count(s, "]")
    /\ \A k \in 0..Len(s) : Count(SubSeq(s, 1, k), "]") <= Count(SubSeq(s, 1, k), "[")

\* C1: Program::parse returns a program exactly for the source texts that have
\* as many "[" as "]" and no prefix with more "]" than "[", and returns None
\* (without a panic) for every other one; a text without brackets compiles.
C1_ParseIffWellBracketed ==
    pc # "main" =>
        /\ program.some <=> WellBracketed(code)
        /\ ~program.some => (program = None /\ pc = "rejected")
        /\ (Count(code, "[") = 0 /\ Count(code, "]") = 0) => program.some

\* C1 witness: a text with as many "[" as "]" was rejected for a prefix
C1_Witness ==
    /\ pc = "rejected"
    /\ Count(code, "[") = Count(code, "]")
    /\ Count(code, "[") > 0

\* the positions of the program
Positions == 0..(Len(program.instructions) - 1)
\* the instruction at position p
At(p) == program.instructions[p + 1]

\* C3: in a compiled program a loop-begin at p with target e has at e a
\* loop-end with target p, and a loop-end at e with target p has at p a
\* loop-begin with target e, and p < e.
C3_JumpSymmetry ==
    program.some =>
        \A q \in Positions :
            /\ At(q).op = "LoopHead" =>
                  /\ At(q).arg \in Positions
                  /\ At(At(q).arg).op = "LoopEnd"
                  /\ At(At(q).arg).arg = q
            /\ At(q).op = "LoopEnd" =>
                  /\ At(q).arg \in Positions
                  /\ At(At(q).arg).op = "LoopHead"
                  /\ At(At(q).arg).arg = q
                  /\ At(q).arg < q

\* C3 witness: a compiled program with one loop nested in another
C3_Witness ==
    /\ program.some
    /\ \E p \in Positions, q \in Positions :
          /\ At(p).op = "LoopHead" /\ At(q).op = "LoopHead"
          /\ p < q /\ At(q).arg < At(p).arg

(***************************************************************************)
(* Properties of single iterations of Program::run, checked under Spec.    *)
(* prev is the state before the last iteration, the variables the state    *)
(* after it.                                                               *)
(***************************************************************************)
\* run has made an iteration
Iterated == trace # <<>>
\* the instruction the last iteration executed
Executed == program.instructions[prev.instruction_pointer + 1]
\* the tape had a cell under the data pointer before the last iteration
PrevHasCell == prev.data_pointer < Len(prev.memory)
\* that cell
PrevCell == prev.memory[prev.data_pointer + 1]

\* C4: pointer-forward(n) at data pointer d on a tape of length L raises the
\* overflow fault iff d + n >= L, pointer-backward(n) raises the underflow
\* fault iff d < n; without a fault the data pointer is d + n or d - n and the
\* instruction pointer has advanced by one.
C4_PointerBounds ==
    /\ (Iterated /\ Executed.op = "IncrementPointer") =>
          /\ panic = "data pointer overflow"
                <=> prev.data_pointer + Executed.arg >= Len(prev.memory)
          /\ panic \in {"none", "data pointer overflow"}
          /\ panic = "none" =>
                /\ data_pointer = prev.data_pointer + Executed.arg
                /\ instruction_pointer = prev.instruction_pointer + 1
    /\ (Iterated /\ Executed.op = "DecrementPointer") =>
          /\ panic = "data pointer underflow" <=> prev.data_pointer < Executed.arg
          /\ panic \in {"none", "data pointer underflow"}
          /\ panic = "none" =>
                /\ data_pointer = prev.data_pointer - Executed.arg
                /\ instruction_pointer = prev.instruction_pointer + 1

\* C4 witness: a pointer-forward reached the last cell of the tape, without a
\* fault
C4_Witness ==
    /\ Iterated
    /\ Executed.op = "IncrementPointer"
    /\ panic = "none"
    /\ data_pointer = Len(memory) - 1

\* C5 (as claimed): cell-increment(n) and cell-decrement(n) on a cell holding v
\* never fault, leave (v + n) mod 256 and (v - n) mod 256 in the cell and
\* advance the instruction pointer by one.
C5_CellArithmeticWraps ==
    /\ (Iterated /\ Executed.op = "IncrementValue" /\ PrevHasCell) =>
          /\ panic = "none"
          /\ memory = [prev.memory EXCEPT ![prev.data_pointer + 1] =
                          (PrevCell + Executed.arg) % 256]
          /\ instruction_pointer = prev.instruction_pointer + 1
    /\ (Iterated /\ Executed.op = "DecrementValue" /\ PrevHasCell) =>
          /\ panic = "none"
          /\ memory = [prev.memory EXCEPT ![prev.data_pointer + 1] =
                          (PrevCell - Executed.arg) % 256]
          /\ instruction_pointer = prev.instruction_pointer + 1

\* the number of iterations of run that executed an output instruction
PutCharCount ==
    Cardinality({i \in 1..Len(trace) : program.instructions[trace[i] + 1].op = "PutChar"})

\* C6 (as claimed): an executed output instruction appends exactly one byte,
\* the value of the current cell, so the output has one byte per executed
\* output instruction.
C6_OutputOneByte ==
    /\ (Iterated /\ Executed.op = "PutChar" /\ PrevHasCell) =>
          stdout = Append(prev.stdout, PrevCell)
    /\ (Iterated /\ panic = "none") => Len(stdout) = PutCharCount

\* an input instruction is about to be executed on exhausted input
Stalled ==
    /\ pc = "running"
    /\ stdin_eof
    /\ LoopCondition(instruction_pointer, program.instructions)
    /\ current_instruction.op = "GetChar"

\* C7: an input instruction executed on exhausted input leaves the tape, the
\* data pointer and the instruction pointer unchanged and the run running at
\* the same input instruction; from then on the run neither ends nor changes
\* its state.
C7_InputExhaustionStalls ==
    /\ [](/\ (Iterated /\ Executed.op = "GetChar" /\ prev.input = InputNone) =>
                /\ memory = prev.memory
                /\ data_pointer = prev.data_pointer
                /\ instruction_pointer = prev.instruction_pointer
                /\ stdout = prev.stdout
                /\ Stalled)
    /\ [][Stalled => /\ Stalled'
                     /\ UNCHANGED <<memory, data_pointer, instruction_pointer,
                                    stdout, panic, pc>>]_vars

\* C7 witness: the same input instruction was attempted twice on exhausted
\* input
C7_Witness ==
    /\ Len(trace) >= 2
    /\ trace[Len(trace)] = trace[Len(trace) - 1]
    /\ Executed.op = "GetChar"
    /\ prev.input = InputNone
    /\ prev.memory = memory
    /\ Stalled

\* C8 (as claimed): a run ends only by the instruction pointer leaving the
\* program or by the overflow fault of a pointer-forward or the underflow
\* fault of a pointer-backward.
C8_OnlyBoundsFaults ==
    pc = "panicked" =>
        \/ panic = "data pointer overflow" /\ Executed.op = "IncrementPointer"
        \/ panic = "data pointer underflow" /\ Executed.op = "DecrementPointer"


(***************************************************************************)
(* ScenarioSpec: the two programs the specification names, on all-zero     *)
(* tapes. Program::parse is one step, and the properties are stated from   *)
(* its return. run is one sequential loop that nothing suspends, so an     *)
(* enabled step of it is taken: weak fairness of the steps of run.         *)
(***************************************************************************)
\* "++>+<[->+<]"
Scenario9 == <<"+", "+", ">", "+", "<", "[", "-", ">", "+", "<", "]">>
\* "+[-]"
Scenario10 == <<"+", "[", "-", "]">>

\* vec![0u8; n]
ZeroTape(n) == [i \in 1..n |-> 0]

ScenarioInit ==
    /\ \E c \in {Scenario9, Scenario10}, n \in 1..(MaxTape + 2) : Start(c, ZeroTape(n))
    /\ naive = NoNaive

ScenarioNext ==
    \/ Parse
    \/ Run
    \/ ExecIncrementPointer
    \/ ExecDecrementPointer
    \/ ExecIncrementValue
    \/ ExecDecrementValue
    \/ ExecLoopHead
    \/ ExecLoopEnd
    \/ Return

\* the steps of Program::run on a program without I/O
RunLoop ==
    \/ Run
    \/ ExecIncrementPointer
    \/ ExecDecrementPointer
    \/ ExecIncrementValue
    \/ ExecDecrementValue
    \/ ExecLoopHead
    \/ ExecLoopEnd
    \/ Return

ScenarioSpec == ScenarioInit /\ [][ScenarioNext]_vars /\ WF_vars(RunLoop)

\* Program::parse has returned for "++>+<[->+<]", and the tape is an all-zero
\* tape of length at least 3 or what the run made of it
OnScenario9 == code = Scenario9 /\ Len(memory) >= 3 /\ pc # "main"

\* the run of "++>+<[->+<]" has returned without a fault, leaving 0 in cell 0,
\* 3 in cell 1 and 0 in every other cell
Scenario9Done ==
    /\ pc = "exited"
    /\ panic = "none"
    /\ memory = [i \in 1..Len(memory) |-> IF i = 2 THEN 3 ELSE 0]

\* C9: "++>+<[->+<]" on an all-zero tape of length at least 3 compiles, runs
\* without a fault and terminates with 0 in cell 0, 3 in cell 1 and 0 in
\* every other cell.
C9_TransferLoop == OnScenario9 ~> Scenario9Done

\* C9 witness: the run of "++>+<[->+<]" has returned with 3 in cell 1
C9_Witness ==
    /\ OnScenario9
    /\ pc = "exited"
    /\ memory[1] = 0
    /\ memory[2] = 3

\* Program::parse has returned for "+[-]", and the tape is an all-zero tape of
\* length at least 1 or what the run made of it
OnScenario10 == code = Scenario10 /\ Len(memory) >= 1 /\ pc # "main"

\* the number of iterations of run that executed the instruction at position p
Executions(p) == Cardinality({i \in 1..Len(trace) : trace[i] = p})

\* the run of "+[-]" has returned without a fault after one execution of the
\* loop body (the cell-decrement at position 2), leaving the whole tape zero
Scenario10Done ==
    /\ pc = "exited"
    /\ panic = "none"
    /\ Executions(2) = 1
    /\ memory = ZeroTape(Len(memory))

\* C10: "+[-]" on an all-zero tape of length at least 1 runs without a fault
\* and terminates, with the loop body executed exactly once and the whole
\* tape zero.
C10_ClearLoop == OnScenario10 ~> Scenario10Done

\* C10 witness: the run of "+[-]" has returned after one execution of the body
C10_Witness ==
    /\ OnScenario10
    /\ pc = "exited"
    /\ Executions(2) = 1
    /\ memory[1] = 0

(***************************************************************************)
(* RleSpec: run on the program bind produces, beside run on the naive form *)
(* of the same opcodes (one unit instruction per opcode), for programs     *)
(* without I/O. The naive machine follows the compressed one: after each   *)
(* iteration of run on the compressed program it makes as many iterations  *)
(* as that instruction stands for.                                         *)
(***************************************************************************)
\* bind without the run-length compression: every opcode as its unit
\* instruction, then the jump resolution pass
NaiveBind(op_codes) ==
    BindJumps([i \in 1..Len(op_codes) |-> as_instruction(op_codes[i])]).instructions

\* the match of run on an instruction without I/O
StepPure(instruction, m, checks) ==
    CASE instruction.op = "IncrementPointer" -> StepIncrementPointer(instruction.arg, m)
      [] instruction.op = "DecrementPointer" -> StepDecrementPointer(instruction.arg, m)
      [] instruction.op = "IncrementValue" -> StepIncrementValue(instruction.arg, m)
      [] instruction.op = "DecrementValue" -> StepDecrementValue(instruction.arg, m, checks)
      [] instruction.op = "LoopHead" -> StepLoopHead(instruction.arg, m)
      [] instruction.op = "LoopEnd" -> StepLoopEnd(instruction.arg, m)

\* the naive machine before its run on tape t
NaiveStart(c, t) ==
    LET op_codes == FilterMapParse(c) IN
    [used |-> TRUE,
     instructions |-> IF check(op_codes) THEN NaiveBind(op_codes) ELSE <<>>,
     m |-> [instruction_pointer |-> 0, data_pointer |-> 0, memory |-> t,
            stdout |-> <<>>, panic |-> "none"],
     pc |-> "running",
     steps |-> 0]

RleInit ==
    \E c \in SourceTexts(PureChars, MaxLen), t \in Tapes(MaxTape) :
        /\ Start(c, t)
        /\ naive = NaiveStart(c, t)

\* the number of opcodes an instruction stands for
Weight(instruction) ==
    IF instruction.op \in {"IncrementPointer", "DecrementPointer",
                           "IncrementValue", "DecrementValue"}
    THEN instruction.arg ELSE 1

\* the number of opcodes the first k iterations of run stand for
RECURSIVE ExpandedSteps(_)
ExpandedSteps(k) ==
    IF k = 0 THEN 0
    ELSE ExpandedSteps(k - 1) + Weight(program.instructions[trace[k] + 1])

\* the naive machine has something left to do
NaiveBehind ==
    /\ pc \in {"running", "exited", "panicked"}
    /\ naive.pc = "running"
    /\ \/ ~LoopCondition(naive.m.instruction_pointer, naive.instructions)
       \/ naive.steps < ExpandedSteps(Len(trace))
       \/ pc # "running"

\* one iteration of run on the naive program, or its return
NaiveStep ==
    /\ NaiveBehind
    /\ naive.steps <= ExpandedSteps(Len(trace))
    /\ naive' =
         IF ~LoopCondition(naive.m.instruction_pointer, naive.instructions)
         THEN [naive EXCEPT !.pc = "exited"]
         ELSE LET m == StepPure(naive.instructions[naive.m.instruction_pointer + 1],
                                naive.m, overflow_checks)
              IN  [naive EXCEPT !.m = m,
                                !.pc = IF m.panic = "none" THEN "running" ELSE "panicked",
                                !.steps = naive.steps + 1]
    /\ UNCHANGED <<code, overflow_checks, memory, program, pc, panic, instruction_pointer,
                   data_pointer, stdin_eof, stdout, trace, prev>>

RleNext ==
    \/ ~NaiveBehind /\ Parse
    \/ ~NaiveBehind /\ Run
    \/ ~NaiveBehind /\ ExecIncrementPointer
    \/ ~NaiveBehind /\ ExecDecrementPointer
    \/ ~NaiveBehind /\ ExecIncrementValue
    \/ ~NaiveBehind /\ ExecDecrementValue
    \/ ~NaiveBehind /\ ExecLoopHead
    \/ ~NaiveBehind /\ ExecLoopEnd
    \/ ~NaiveBehind /\ Return
    \/ NaiveStep

RleSpec == RleInit /\ [][RleNext]_vars

\* how a run stands: "running", "exited" (also when only the return is left)
\* or "panicked"
Outcome(p, ip, instructions) ==
    IF p = "running" /\ ~LoopCondition(ip, instructions) THEN "exited" ELSE p

\* C2 (as claimed): for a program without I/O the run of the compressed
\* program and the run of the naive form have the same outcome, the same tape
\* and the same output, whenever the naive run has made the iterations the
\* compressed run stands for; the naive run never needs more.
C2_RleSameObservableResult ==
    pc \in {"running", "exited", "panicked"} =>
        /\ naive.steps <= ExpandedSteps(Len(trace))
        /\ ~NaiveBehind =>
              /\ Outcome(naive.pc, naive.m.instruction_pointer, naive.instructions)
                    = Outcome(pc, instruction_pointer, program.instructions)
              /\ naive.m.panic = panic
              /\ naive.m.memory = memory
              /\ naive.m.stdout = stdout

\* C2 in a build without overflow checks: there the two runs agree
RleSameInWrappingBuild == ~overflow_checks => C2_RleSameObservableResult

(***************************************************************************)
(* Further properties of Program::parse, checked under CompileSpec.        *)
(***************************************************************************)
\* the text s without the characters that are none of > < + - . , [ ]
Recognized(s) == SelectSeq(s, LAMBDA c : c \in OpChars)

\* C11: Program::parse gives for a source text the result it gives for the
\* text with every unrecognized character removed (the same instructions or
\* the same rejection), so an unrecognized character between two equal
\* pointer/value opcodes does not split their run.
C11_UnrecognizedIgnored ==
    pc # "main" => program = ProgramParse(Recognized(code))

\* C11 witness: "+x+" was compiled to one cell-increment of 2
C11_Witness ==
    /\ pc = "parsed"
    /\ code = <<"+", "x", "+">>
    /\ program.instructions = <<[op |-> "IncrementValue", arg |-> 2]>>

\* the instruction carries a repetition count
Counted(instruction) ==
    instruction.op \in {"IncrementPointer", "DecrementPointer",
                        "IncrementValue", "DecrementValue"}

\* the opcodes an instruction stands for
ExpandInstruction(instruction) ==
    IF Counted(instruction)
    THEN [i \in 1..instruction.arg |-> instruction.op]
    ELSE <<instruction.op>>

\* the opcodes the first k instructions stand for, in order
RECURSIVE Expand(_, _)
Expand(instructions, k) ==
    IF k = 0 THEN <<>>
    ELSE Expand(instructions, k - 1) \o ExpandInstruction(instructions[k])

\* C14: the compiled program is the run-length encoding of the opcodes: every
\* count is at least 1, no two adjacent instructions are the same counted
\* kind (a maximal run is one instruction), output, input and loop opcodes
\* stay one instruction each, and expanding every instruction gives back the
\* opcode sequence.
C14_RunLengthEncoding ==
    program.some =>
        LET instructions == program.instructions
            n == Len(instructions)
        IN  /\ \A i \in 1..n : Counted(instructions[i]) => instructions[i].arg >= 1
            /\ \A i \in 1..(n - 1) :
                  Counted(instructions[i]) => instructions[i + 1].op # instructions[i].op
            /\ Expand(instructions, n) = FilterMapParse(code)
            /\ Cardinality({i \in 1..n : ~Counted(instructions[i])})
                  = Cardinality({i \in 1..Len(code) : code[i] \in {".", ",", "[", "]"}})

\* C14 witness: a compiled program with a counted instruction of count 2 or
\* more and two adjacent equal unit instructions
C14_Witness ==
    /\ program.some
    /\ \E i \in 1..Len(program.instructions) :
          Counted(program.instructions[i]) /\ program.instructions[i].arg >= 2
    /\ \E i \in 1..(Len(program.instructions) - 1) :
          /\ ~Counted(program.instructions[i])
          /\ program.instructions[i + 1].op = program.instructions[i].op

\* C15: Program::parse returns None or a program and never panics; for
\* opcodes that pass the validation, bind trips no assertion of
\* create_optimized_instruction, pops no empty stack, ends with the stack of
\* pending loop heads empty and leaves no loop instruction with the
\* placeholder target usize::MAX.
C15_CompilationNeverPanics ==
    pc # "main" =>
        /\ pc \in {"parsed", "rejected"}
        /\ ~program.panicked
        /\ check(FilterMapParse(code)) =>
              LET optimized_instructions == Optimize(FilterMapParse(code))
                  bound == BindJumps(optimized_instructions)
              IN  /\ \A i \in 1..Len(optimized_instructions) :
                        optimized_instructions[i] # PanicInstruction
                  /\ ~bound.unwrapped_none
                  /\ bound.stack = <<>>
                  /\ ~bind(FilterMapParse(code)).panicked
                  /\ program.some
                  /\ \A i \in 1..Len(program.instructions) :
                        program.instructions[i].op \in {"LoopHead", "LoopEnd"}
                            => program.instructions[i].arg # usize_MAX

\* C15 witness: a program with a loop around a counted instruction was
\* compiled
C15_Witness ==
    /\ pc = "parsed"
    /\ code = <<"[", "+", "+", "]">>
    /\ program.instructions[1] = [op |-> "LoopHead", arg |-> 2]

(***************************************************************************)
(* Further properties of Program::run, checked under Spec (C13 under       *)
(* ScenarioSpec).                                                          *)
(***************************************************************************)
\* C12: loop-begin(end) at position p sets the instruction pointer to end + 1
\* if the current cell is 0 and to p + 1 otherwise; loop-end(begin) at
\* position e sets it to e + 1 if the current cell is 0 and to begin
\* otherwise; the tape and the data pointer are unchanged.
C12_LoopsOnlySteer ==
    /\ (Iterated /\ Executed.op = "LoopHead" /\ PrevHasCell) =>
          /\ panic = "none"
          /\ instruction_pointer =
                IF PrevCell = 0 THEN Executed.arg + 1 ELSE prev.instruction_pointer + 1
          /\ memory = prev.memory
          /\ data_pointer = prev.data_pointer
    /\ (Iterated /\ Executed.op = "LoopEnd" /\ PrevHasCell) =>
          /\ panic = "none"
          /\ instruction_pointer =
                IF PrevCell = 0 THEN prev.instruction_pointer + 1 ELSE Executed.arg
          /\ memory = prev.memory
          /\ data_pointer = prev.data_pointer

\* C12 witness: a loop-end found a nonzero cell and jumped back to its
\* loop-begin
C12_Witness ==
    /\ Iterated
    /\ Executed.op = "LoopEnd"
    /\ PrevHasCell
    /\ PrevCell # 0
    /\ instruction_pointer = Executed.arg
    /\ instruction_pointer < prev.instruction_pointer

\* C13 (as claimed): the run of "+[-]" ends with a second execution of the
\* loop-begin (position 1), which finds the cell 0 and jumps past the
\* loop-end.
C13_ExitThroughLoopBegin ==
    (OnScenario10 /\ pc = "exited") =>
        /\ prev.instruction_pointer = 1
        /\ Executions(1) = 2

\* C13 (amended): the run of "+[-]" executes the instructions at positions 0,
\* 1, 2, 3 once each, in this order; the last one executed is the loop-end
\* (position 3), which finds the cell 0 and advances to position 4, past
\* itself, which ends the run; the loop-begin is not executed again.
C13_ExitThroughLoopEnd ==
    /\ OnScenario10 => \A i \in 1..Len(trace) : trace[i] = i - 1
    /\ (OnScenario10 /\ pc = "exited") =>
          /\ trace = <<0, 1, 2, 3>>
          /\ Executed.op = "LoopEnd"
          /\ prev.instruction_pointer = 3
          /\ PrevCell = 0
          /\ instruction_pointer = 4
          /\ instruction_pointer = At(1).arg + 1

\* C13 witness: the run of "+[-]" has returned right after its loop-end
C13_Witness ==
    /\ OnScenario10
    /\ pc = "exited"
    /\ prev.instruction_pointer = 3
    /\ Executions(1) = 1

\* C16: on a tape of length L >= 1 the data pointer d of a run that is
\* running satisfies 0 <= d < L, and no access to the current cell is out of
\* the tape.
C16_DataPointerInTape ==
    Len(memory) >= 1 =>
        /\ pc = "running" => (0 <= data_pointer /\ data_pointer < Len(memory))
        /\ panic # "index out of bounds"

\* C16 witness: an instruction is about to be fetched with the data pointer
\* on the last cell of a tape of two or more cells
C16_Witness ==
    /\ pc = "running"
    /\ LoopCondition(instruction_pointer, program.instructions)
    /\ Len(memory) >= 2
    /\ data_pointer = Len(memory) - 1

\* C17: with N instructions the instruction pointer of a run stays in 0..N,
\* a loop instruction leaves it in 0..N, and a run that has returned has it
\* at N.
C17_InstructionPointerRange ==
    pc \in {"running", "exited", "panicked"} =>
        /\ 0 <= instruction_pointer
        /\ instruction_pointer <= Len(program.instructions)
        /\ pc = "exited" => instruction_pointer = Len(program.instructions)

\* C17 witness: a loop-begin jumped to the end of the program and the run
\* returned
C17_Witness ==
    /\ pc = "exited"
    /\ Iterated
    /\ Executed.op = "LoopHead"
    /\ instruction_pointer = Executed.arg + 1
    /\ instruction_pointer = Len(program.instructions)

\* the cell under the data pointer
CurrentCell == memory[data_pointer + 1]

\* C18: right after a loop-begin or a loop-end left the instruction pointer
\* just after the loop-end of its loop, the current cell is 0; right after it
\* kept control in the loop (begin + 1 after a loop-begin, begin after a
\* loop-end) the current cell is not 0.
C18_LoopExitOnZero ==
    /\ (Iterated /\ Executed.op = "LoopHead" /\ panic = "none") =>
          /\ At(Executed.arg).op = "LoopEnd"
          /\ instruction_pointer = Executed.arg + 1 => CurrentCell = 0
          /\ instruction_pointer = prev.instruction_pointer + 1 => CurrentCell # 0
          /\ instruction_pointer \in {Executed.arg + 1, prev.instruction_pointer + 1}
    /\ (Iterated /\ Executed.op = "LoopEnd" /\ panic = "none") =>
          /\ At(Executed.arg).op = "LoopHead"
          /\ instruction_pointer = prev.instruction_pointer + 1 => CurrentCell = 0
          /\ instruction_pointer = Executed.arg => CurrentCell # 0
          /\ instruction_pointer \in {prev.instruction_pointer + 1, Executed.arg}

\* C18 witness: a loop-end found the cell 0 after the body had changed it and
\* left the loop
C18_Witness ==
    /\ Iterated
    /\ Executed.op = "LoopEnd"
    /\ panic = "none"
    /\ instruction_pointer = prev.instruction_pointer + 1
    /\ CurrentCell = 0
    /\ Len(trace) >= 3

\* C19: an iteration of run changes at most the cell under the data pointer,
\* and only a cell-increment, a cell-decrement or an input that read a byte
\* changes it; the length of the tape does not change and the program stays
\* what Program::parse returned.
C19_Frame ==
    /\ Iterated =>
          /\ Len(memory) = Len(prev.memory)
          /\ \A i \in 1..Len(memory) :
                i # prev.data_pointer + 1 => memory[i] = prev.memory[i]
          /\ Executed.op \notin {"IncrementValue", "DecrementValue", "GetChar"}
                => memory = prev.memory
          /\ (Executed.op = "GetChar" /\ prev.input.kind # "Ok") => memory = prev.memory
    /\ pc \in {"running", "exited", "panicked"} => program = ProgramParse(code)

\* C19 witness: an input instruction read a byte and changed the current cell,
\* with another cell on the tape
C19_Witness ==
    /\ Iterated
    /\ Executed.op = "GetChar"
    /\ prev.input.kind = "Ok"
    /\ memory # prev.memory
    /\ Len(memory) >= 2

====
